---- MODULE Spec2Model ----
(***************************************************************************)
(* Model of the scoring and ranking pipeline of the Case B recommender:    *)
(* the rule scorer (common/utils/scoring.js), the filter                   *)
(* (common/utils/filtering.js), the reason builder                         *)
(* (common/utils/reasoning.js), the price predictor gateway                *)
(* (services/mlClient.js) and the POST /recommendations handler            *)
(* (backend-node/src/server.js); and of POST /save-property of the Case A  *)
(* backend with its MongoDB connection (config/db.js).                     *)
(*                                                                         *)
(* Numbers.  Prices and budgets are integers, in thousands of dollars.     *)
(* Scores are exact fixed-point numbers: the integer v stands for the      *)
(* score v / Unit, so 100 points is Pts(100).  Every division of the       *)
(* source is exact on the domains used here (the budgets divide            *)
(* Pts(100)), so the arithmetic is that of the reals; the rounding of      *)
(* IEEE doubles is not modelled.  toFixed(2) is modelled as rounding to    *)
(* the nearest hundredth, halves away from zero.                           *)
(*                                                                         *)
(* A nullable JavaScript value is a sequence: <<>> is null/undefined and   *)
(* <<v>> is the value v.  A string that is searched or trimmed is a        *)
(* sequence of one-character strings.  A remark of the reasoning text is   *)
(* a record of what its sentence says (which sentence, and the values put  *)
(* into it); the text is the sequence of its remarks.                      *)
(***************************************************************************)
EXTENDS Integers, Sequences, FiniteSets, TLC

VARIABLES
    fullProperties,   \* server.js: the in-memory catalog, joined at start-up
    pc,               \* position of the /recommendations handler
    request,          \* req.body of the request being handled
    preferences,      \* the handler's normalized preferences
    properties,       \* filterProperties(fullProperties, preferences)
    propertiesForML,  \* the batch built for the gateway
    gatewayCalls,     \* batches posted to the predictor for this request
    outcome,          \* how the gateway call ended
    axiosResult,      \* what the awaited axios.post gave
    mlResult,         \* what getMlScoresForProperties returned
    enriched,         \* the scored properties, in filter order (before the sort)
    response,         \* the payload given to res.json
    fnCall,           \* a direct call of a scoring function: name, arguments, result
    handlers,         \* the locals of each invocation of the handler that can overlap
    caseA             \* the Case A backend: its MongoDB connection and its saves

vars == <<fullProperties, pc, request, preferences, properties, propertiesForML,
          gatewayCalls, outcome, axiosResult, mlResult, enriched, response,
          fnCall, handlers, caseA>>

pipelineVars == <<fullProperties, pc, request, preferences, properties,
                  propertiesForML, gatewayCalls, outcome, axiosResult, mlResult,
                  enriched, response>>

----------------------------------------------------------------------------
(* Values *)

Null == <<>>
Num(v) == <<v>>
IsNull(x) == x = <<>>
Val(x) == x[1]
\* a ?? b
Coalesce(a, b) == IF IsNull(a) THEN b ELSE a
\* !x for a nullable number: null, undefined and 0 are falsy
Falsy(x) == IsNull(x) \/ Val(x) = 0

\* the element of a set of one.  The({e : x \in {v}}) is e with x the value
\* of v, computed once (const x = v; ... x ... x ...)
The(S) == CHOOSE y \in S : TRUE

Max(a, b) == IF a >= b THEN a ELSE b
Min(a, b) == IF a <= b THEN a ELSE b

Unit == 60 * 100
Pts(n) == n * Unit

----------------------------------------------------------------------------
(* Strings as character sequences *)

Lower(c) ==
    CASE c = "A" -> "a" [] c = "B" -> "b" [] c = "C" -> "c" [] c = "D" -> "d"
      [] c = "E" -> "e" [] c = "G" -> "g" [] c = "K" -> "k" [] c = "L" -> "l"
      [] c = "M" -> "m" [] c = "N" -> "n" [] c = "O" -> "o" [] c = "P" -> "p"
      [] c = "R" -> "r" [] c = "Y" -> "y"
      [] OTHER -> c

toLowerCase(s) == [i \in 1..Len(s) |-> Lower(s[i])]

RECURSIVE TrimStart(_)
TrimStart(s) ==
    IF s # <<>> /\ Head(s) = " " THEN TrimStart(Tail(s)) ELSE s

RECURSIVE TrimEnd(_)
TrimEnd(s) ==
    IF s # <<>> /\ s[Len(s)] = " " THEN TrimEnd(SubSeq(s, 1, Len(s) - 1)) ELSE s

trim(s) == The({TrimEnd(t) : t \in {TrimStart(s)}})

\* String.prototype.includes
includes(s, sub) ==
    \E i \in 1..(Len(s) - Len(sub) + 1) : SubSeq(s, i, i + Len(sub) - 1) = sub

kwPool == <<"p", "o", "o", "l">>
kwGarage == <<"g", "a", "r", "a", "g", "e">>
kwGarden == <<"g", "a", "r", "d", "e", "n">>
kwBackyard == <<"b", "a", "c", "k", "y", "a", "r", "d">>

----------------------------------------------------------------------------
(* common/utils/scoring.js *)

computePriceMatchScore(predictedPrice, userBudget) ==
    IF Falsy(userBudget) \/ Val(userBudget) <= 0 \/ Falsy(predictedPrice)
    THEN Pts(50)
    ELSE IF Val(predictedPrice) <= Val(userBudget)
    THEN Pts(100)
    ELSE LET diffRatioTimes100 ==
                 ((Val(predictedPrice) - Val(userBudget)) * Pts(100))
                 \div Val(userBudget)
         IN  Max(0, Pts(100) - diffRatioTimes100)

\* a scorer that gives a missing bedroom count the neutral score
computeBedroomScore_missingIsNeutral(propertyBedrooms, userMinBedrooms) ==
    IF Falsy(userMinBedrooms) \/ Val(userMinBedrooms) <= 0 THEN Pts(100)
    ELSE IF Falsy(propertyBedrooms) THEN Pts(50)
    ELSE IF Val(propertyBedrooms) >= Val(userMinBedrooms) THEN Pts(100)
    ELSE Max(0, Min(Pts(100),
                    (Val(propertyBedrooms) * Pts(100)) \div Val(userMinBedrooms)))

computeBedroomScore(propertyBedrooms, userMinBedrooms) ==
    IF Falsy(userMinBedrooms) \/ Val(userMinBedrooms) <= 0 THEN Pts(100)
    ELSE IF Falsy(propertyBedrooms) THEN 0
    ELSE IF Val(propertyBedrooms) >= Val(userMinBedrooms) THEN Pts(100)
    ELSE Max(0, Min(Pts(100),
                    (Val(propertyBedrooms) * Pts(100)) \div Val(userMinBedrooms)))

\* a school-rating score without the clamp to [0,100]
computeSchoolRatingScore_unclamped(schoolRating) ==
    IF IsNull(schoolRating) THEN Pts(50)
    ELSE (Val(schoolRating) * Pts(100)) \div 10

computeSchoolRatingScore(schoolRating) ==
    IF IsNull(schoolRating) THEN Pts(50)
    ELSE Max(0, Min(Pts(100), (Val(schoolRating) * Pts(100)) \div 10))

\* a commute scorer whose thresholds are strict
computeCommuteScore_strictThresholds(commuteTime) ==
    IF IsNull(commuteTime) THEN Pts(50)
    ELSE IF Val(commuteTime) < 15 THEN Pts(100)
    ELSE IF Val(commuteTime) < 30 THEN Pts(80)
    ELSE IF Val(commuteTime) < 45 THEN Pts(50)
    ELSE Pts(20)

computeCommuteScore(commuteTime) ==
    IF IsNull(commuteTime) THEN Pts(50)
    ELSE IF Val(commuteTime) <= 15 THEN Pts(100)
    ELSE IF Val(commuteTime) <= 30 THEN Pts(80)
    ELSE IF Val(commuteTime) <= 45 THEN Pts(50)
    ELSE Pts(20)

\* an age scorer that gives an unknown age the score of a new home
computePropertyAgeScore_unknownIsNew(propertyAge) ==
    IF IsNull(propertyAge) \/ Val(propertyAge) <= 5 THEN Pts(100)
    ELSE IF Val(propertyAge) <= 15 THEN Pts(80)
    ELSE IF Val(propertyAge) <= 30 THEN Pts(60)
    ELSE Pts(40)

computePropertyAgeScore(propertyAge) ==
    IF IsNull(propertyAge) THEN Pts(60)
    ELSE IF Val(propertyAge) <= 5 THEN Pts(100)
    ELSE IF Val(propertyAge) <= 15 THEN Pts(80)
    ELSE IF Val(propertyAge) <= 30 THEN Pts(60)
    ELSE Pts(40)

\* normalized.some((a) => a.includes(kw))
someIncludes(normalized, kw) ==
    \E i \in 1..Len(normalized) : includes(normalized[i], kw)

\* the signals without the backyard keyword
amenitySignals_backyardIgnored(normalized) ==
    LET hasPool == someIncludes(normalized, kwPool)
        hasGarage == someIncludes(normalized, kwGarage)
        hasGarden == someIncludes(normalized, kwGarden)
        trueCount == (IF hasPool THEN 1 ELSE 0) + (IF hasGarage THEN 1 ELSE 0)
                     + (IF hasGarden THEN 1 ELSE 0)
    IN  (trueCount * Pts(100)) \div 3

\* the count of the three signals, as a score
amenitySignals(normalized) ==
    LET hasPool == someIncludes(normalized, kwPool)
        hasGarage == someIncludes(normalized, kwGarage)
        hasGarden == someIncludes(normalized, kwGarden)
                     \/ someIncludes(normalized, kwBackyard)
        trueCount == (IF hasPool THEN 1 ELSE 0) + (IF hasGarage THEN 1 ELSE 0)
                     + (IF hasGarden THEN 1 ELSE 0)
    IN  (trueCount * Pts(100)) \div 3

\* amenities.map((a) => (a || '').toLowerCase().trim()).filter(nonempty)
normalizeAmenities(list) ==
    SelectSeq([i \in 1..Len(list) |->
                  The({trim(lower) : lower \in {toLowerCase(list[i])}})],
              LAMBDA a : Len(a) > 0)

\* amenities: Null (not an array) or a sequence of strings
computeAmenitiesScore(amenities) ==
    IF IsNull(amenities) \/ Len(Val(amenities)) = 0 THEN 0
    ELSE The({amenitySignals(normalized) :
                 normalized \in {normalizeAmenities(Val(amenities))}})

computeTotalScore_swappedWeights(components) ==
    LET d(x, dflt) == IF IsNull(x) THEN dflt ELSE Val(x)
    IN  ( 20 * d(components.priceMatchScore, Pts(50))
        + 30 * d(components.bedroomScore, Pts(50))
        + 15 * d(components.schoolRatingScore, Pts(50))
        + 15 * d(components.commuteScore, Pts(50))
        + 10 * d(components.propertyAgeScore, Pts(60))
        + 10 * d(components.amenitiesScore, 0) ) \div 100

\* components: a record of nullable scores; Null is an undefined field,
\* which takes the destructuring default
computeTotalScore(components) ==
    LET d(x, dflt) == IF IsNull(x) THEN dflt ELSE Val(x)
        priceMatchScore == d(components.priceMatchScore, Pts(50))
        bedroomScore == d(components.bedroomScore, Pts(50))
        schoolRatingScore == d(components.schoolRatingScore, Pts(50))
        commuteScore == d(components.commuteScore, Pts(50))
        propertyAgeScore == d(components.propertyAgeScore, Pts(60))
        amenitiesScore == d(components.amenitiesScore, 0)
    IN  ( 30 * priceMatchScore
        + 20 * bedroomScore
        + 15 * schoolRatingScore
        + 15 * commuteScore
        + 10 * propertyAgeScore
        + 10 * amenitiesScore ) \div 100

computeRuleScore(property, prefs) ==
    LET budget == prefs.budget
        minBedrooms == prefs.minBedrooms
        predictedPrice ==
            Coalesce(property.predicted_price,
                     Coalesce(property.modelPredictedPrice,
                              IF IsNull(property.ml_metadata) THEN Null
                              ELSE Val(property.ml_metadata).predicted_price))
        priceMatchScore == computePriceMatchScore(predictedPrice, budget)
        bedroomScore ==
            computeBedroomScore(
                Coalesce(property.bedrooms,
                         Coalesce(property.beds, property.characteristics.beds)),
                minBedrooms)
        schoolRatingScore ==
            computeSchoolRatingScore(
                Coalesce(property.school_rating,
                         property.characteristics.school_rating))
        commuteScore ==
            computeCommuteScore(
                Coalesce(property.commute_time,
                         property.characteristics.commute_time))
        propertyAgeScore ==
            computePropertyAgeScore(
                Coalesce(property.property_age,
                         property.characteristics.property_age))
        amenitiesScore ==
            computeAmenitiesScore(
                Coalesce(property.amenities,
                         Coalesce(property.characteristics.amenities, Num(<<>>))))
    IN  The({computeTotalScore(components) :
                 components \in
                     {[priceMatchScore |-> Num(priceMatchScore),
                       bedroomScore |-> Num(bedroomScore),
                       schoolRatingScore |-> Num(schoolRatingScore),
                       commuteScore |-> Num(commuteScore),
                       propertyAgeScore |-> Num(propertyAgeScore),
                       amenitiesScore |-> Num(amenitiesScore)]}})

----------------------------------------------------------------------------
(* common/utils/filtering.js *)

fitsBudget(property, budget) ==
    IF Falsy(budget) \/ Val(budget) <= 0 THEN TRUE
    ELSE LET price == Coalesce(property.price, property.list_price)
         IN  IF IsNull(price) THEN TRUE ELSE Val(price) <= Val(budget)

meetsBedroomRequirement(property, minBedrooms) ==
    IF Falsy(minBedrooms) \/ Val(minBedrooms) <= 0 THEN TRUE
    ELSE LET beds == Coalesce(property.bedrooms,
                              Coalesce(property.beds, property.characteristics.beds))
         IN  IF IsNull(beds) THEN TRUE ELSE Val(beds) >= Val(minBedrooms)

\* a nullable string is falsy when it is null or empty
FalsyStr(x) == IsNull(x) \/ Val(x) = <<>>

matchesPreferredLocation(property, preferredLocations) ==
    IF Len(preferredLocations) = 0 THEN TRUE
    ELSE LET fields == <<property.location, property.city, property.neighbourhood,
                        property.state>>
             present == SelectSeq(fields, LAMBDA f : ~FalsyStr(f))
             locationTokens == {trim(Val(present[i])) : i \in 1..Len(present)}
         IN  \E i \in 1..Len(preferredLocations) :
                 preferredLocations[i] \in locationTokens

filterProperties(props, prefs) ==
    SelectSeq(props,
              LAMBDA property :
                  /\ fitsBudget(property, prefs.budget)
                  /\ meetsBedroomRequirement(property, prefs.minBedrooms)
                  /\ matchesPreferredLocation(property, prefs.preferredLocations))

----------------------------------------------------------------------------
(* common/utils/reasoning.js *)

\* property.predicted_price ?? property.modelPredictedPrice ??
\* property.ml_metadata?.predicted_price ?? null
carriedPrediction(property) ==
    Coalesce(property.predicted_price,
             Coalesce(property.modelPredictedPrice,
                      IF IsNull(property.ml_metadata) THEN Null
                      ELSE Val(property.ml_metadata).predicted_price))

\* parts.priceRemark: basis "predicted" is 'The model predicts this home is
\* valued at around ...', basis "list" is 'List price (...) ... (model
\* prediction unavailable).'
priceRemark(predictedPrice, listPrice, budget) ==
    IF ~Falsy(predictedPrice)
    THEN Num([remark |-> "price", basis |-> "predicted",
              amount |-> Val(predictedPrice),
              budgetNote |-> IF Falsy(budget) THEN "none"
                             ELSE IF Val(predictedPrice) <= Val(budget)
                             THEN "fits" ELSE "above"])
    ELSE IF ~Falsy(budget) /\ ~Falsy(listPrice)
    THEN Num([remark |-> "price", basis |-> "list", amount |-> Val(listPrice),
              budgetNote |-> IF Val(listPrice) <= Val(budget)
                             THEN "fits" ELSE "above"])
    ELSE Null

\* a bedroom remark made without looking at the preference
bedroomsRemark_always(bedrooms, minBedrooms) ==
    Num([remark |-> "bedrooms", compared |-> "meets", bedrooms |-> bedrooms,
         minBedrooms |-> minBedrooms])

\* parts.bedroomsRemark; in bedrooms > minBedrooms a null count compares as 0
bedroomsRemark(bedrooms, minBedrooms) ==
    IF Falsy(minBedrooms) THEN Null
    ELSE IF (IF IsNull(bedrooms) THEN 0 ELSE Val(bedrooms)) > Val(minBedrooms)
    THEN Num([remark |-> "bedrooms", compared |-> "more", bedrooms |-> bedrooms,
              minBedrooms |-> minBedrooms])
    ELSE IF bedrooms = minBedrooms
    THEN Num([remark |-> "bedrooms", compared |-> "meets", bedrooms |-> bedrooms,
              minBedrooms |-> minBedrooms])
    ELSE IF ~IsNull(bedrooms)
    THEN Num([remark |-> "bedrooms", compared |-> "fewer", bedrooms |-> bedrooms,
              minBedrooms |-> minBedrooms])
    ELSE Null

sCommaSpace == <<",", " ">>

\* [property.city, property.state].filter(Boolean).join(', ')
cityAndState(property) ==
    IF FalsyStr(property.city)
    THEN (IF FalsyStr(property.state) THEN <<>> ELSE Val(property.state))
    ELSE IF FalsyStr(property.state) THEN Val(property.city)
    ELSE Val(property.city) \o sCommaSpace \o Val(property.state)

\* property.location || [city, state] joined
reasonLocation(property) ==
    IF FalsyStr(property.location) THEN cityAndState(property)
    ELSE Val(property.location)

\* parts.areaRemark: inPreferred is 'Located in one of your preferred areas',
\* else '..., which is outside your selected preferred areas.'
areaRemark(property, preferredAreas) ==
    IF Len(preferredAreas) = 0 THEN Null
    ELSE The({Num([remark |-> "area",
                   inPreferred |-> \E i \in 1..Len(preferredAreas) :
                                      preferredAreas[i] = location,
                   location |-> location]) :
                 location \in {reasonLocation(property)}})

\* Array.isArray(property.amenities) ? property.amenities
\*     : property.characteristics?.amenities || []
reasonAmenities(property) ==
    IF ~IsNull(property.amenities) THEN Val(property.amenities)
    ELSE IF IsNull(property.characteristics.amenities) THEN <<>>
    ELSE Val(property.characteristics.amenities)

\* parts.amenitiesRemark, over amenities.map(trim).filter(nonempty)
amenitiesRemark(amenities) ==
    The({IF Len(cleaned) > 0
         THEN Num([remark |-> "amenities", listed |-> cleaned]) ELSE Null :
             cleaned \in {SelectSeq([i \in 1..Len(amenities) |-> trim(amenities[i])],
                                    LAMBDA a : Len(a) > 0)}})

getReasonParts(property, prefs) ==
    [priceRemark |->
        priceRemark(carriedPrediction(property),
                    Coalesce(property.price, property.list_price),
                    prefs.budget),
     bedroomsRemark |->
        bedroomsRemark(Coalesce(property.bedrooms,
                                Coalesce(property.beds,
                                         property.characteristics.beds)),
                       prefs.minBedrooms),
     areaRemark |-> areaRemark(property, prefs.preferredAreas),
     amenitiesRemark |-> amenitiesRemark(reasonAmenities(property))]

\* Object.values(parts).filter(Boolean).join(' '): the remarks that were set,
\* in the order the keys were set
joinParts(parts) ==
    LET values == SelectSeq(<<parts.priceRemark, parts.bedroomsRemark,
                              parts.areaRemark, parts.amenitiesRemark>>,
                            LAMBDA remark : ~IsNull(remark))
    IN  [i \in 1..Len(values) |-> Val(values[i])]

buildReason(property, prefs) ==
    The({joinParts(parts) : parts \in {getReasonParts(property, prefs)}})

----------------------------------------------------------------------------
(* JSON values of a request body or of a predictor reply *)

JNull == [t |-> "null", v |-> 0]
JEmpty == [t |-> "empty", v |-> 0]            \* the string ''
JText == [t |-> "text", v |-> 0]              \* a string that is no number
JNum(n) == [t |-> "num", v |-> n]             \* a number
JNumStr(n) == [t |-> "numstr", v |-> n]       \* the decimal string of n
JAbsent == [t |-> "absent", v |-> 0]          \* the key is not there

----------------------------------------------------------------------------
(* case-study-B-ml-recommender/backend-node/src/server.js *)

TopN == 3
DefaultBudget == 250
TimeoutMs == 4000

MsgUnavailable == "Remote ML service unavailable; using rule-based scoring only."
MsgNoUsable ==
    "Remote ML service responded without usable predictions; using rule-based scoring only."

toNumberOrNull(value) ==
    IF value.t \in {"null", "absent", "empty"} THEN Null
    ELSE IF value.t \in {"num", "numstr"} THEN Num(value.v)
    ELSE Null

\* a catalog field, a number or null, as the value toNumberOrNull is given
AsJson(x) == IF IsNull(x) THEN JNull ELSE JNum(Val(x))

\* a payload builder that sends missing measures as null, without defaults
buildPropertyForML_noDefaults(property) ==
    LET baseDetails == property.characteristics
    IN  [id |-> property.id,
         price |->
            Coalesce(toNumberOrNull(AsJson(Coalesce(property.list_price,
                                                    property.price))),
                     toNumberOrNull(AsJson(property.price))),
         bedrooms |->
            Coalesce(toNumberOrNull(AsJson(
                         Coalesce(property.bedrooms,
                                  Coalesce(baseDetails.bedrooms, baseDetails.beds)))),
                     toNumberOrNull(AsJson(property.bedrooms))),
         school_rating |->
            toNumberOrNull(AsJson(Coalesce(property.school_rating,
                                           baseDetails.school_rating))),
         commute_time |->
            toNumberOrNull(AsJson(Coalesce(property.commute_time,
                                           baseDetails.commute_time))),
         property_age |->
            toNumberOrNull(AsJson(Coalesce(property.property_age,
                                           baseDetails.property_age)))]

buildPropertyForML(property) ==
    LET baseDetails == property.characteristics
        price ==
            Coalesce(toNumberOrNull(AsJson(Coalesce(property.list_price,
                                                    property.price))),
                     toNumberOrNull(AsJson(property.price)))
        bedrooms ==
            Coalesce(toNumberOrNull(AsJson(
                         Coalesce(property.bedrooms,
                                  Coalesce(baseDetails.bedrooms, baseDetails.beds)))),
                     toNumberOrNull(AsJson(property.bedrooms)))
        schoolRating ==
            Coalesce(toNumberOrNull(AsJson(Coalesce(property.school_rating,
                                                    baseDetails.school_rating))),
                     Num(7))
        commuteTime ==
            Coalesce(toNumberOrNull(AsJson(Coalesce(property.commute_time,
                                                    baseDetails.commute_time))),
                     Num(30))
        propertyAge ==
            Coalesce(toNumberOrNull(AsJson(Coalesce(property.property_age,
                                                    baseDetails.property_age))),
                     Num(10))
    IN  [id |-> property.id,
         price |-> price,
         bedrooms |-> bedrooms,
         school_rating |-> schoolRating,
         commute_time |-> commuteTime,
         property_age |-> propertyAge]

computeFinalScore_roundedRule(ruleScore, mlPriceScore) ==
    IF IsNull(mlPriceScore) THEN ((ruleScore + 30) \div 60) * 60
    ELSE (7 * ruleScore + 3 * Val(mlPriceScore)) \div 10

computeFinalScore(ruleScore, mlPriceScore) ==
    IF IsNull(mlPriceScore) THEN ruleScore
    ELSE (7 * ruleScore + 3 * Val(mlPriceScore)) \div 10

\* a mapper whose over-budget penalty is capped at +100% instead of +150%
priceToScore_capAtDouble(predictedPrice, budget) ==
    IF IsNull(predictedPrice) \/ Falsy(budget) \/ Val(budget) <= 0 THEN Null
    ELSE LET p == Val(predictedPrice)
             b == Val(budget)
         IN  IF p <= b
             THEN Num(Pts(60) + ((b - p) * Pts(40)) \div b)
             ELSE LET over40 == Min(((p - b) * Pts(40)) \div b, Pts(40))
                  IN  Num(Max(0, Pts(60) - over40))

\* predictedPrice is known to be a number or null here (typeof ... === 'number')
priceToScore(predictedPrice, budget) ==
    IF IsNull(predictedPrice) \/ Falsy(budget) \/ Val(budget) <= 0 THEN Null
    ELSE LET p == Val(predictedPrice)
             b == Val(budget)
         IN  IF p <= b     \* ratio <= 1
             THEN Num(Pts(60) + ((b - p) * Pts(40)) \div b)
             ELSE LET over40 == Min(((p - b) * Pts(40)) \div b, Pts(60))
                  IN  Num(Max(0, Pts(60) - over40))

\* Number(x.toFixed(2)) for a score x
toFixed2(x) ==
    IF x >= 0 THEN ((x + 30) \div 60) * 60
    ELSE 0 - (((0 - x) + 30) \div 60) * 60

\* the handler's preference normalization
normalizePreferences(body) ==
    LET inputAreas == IF IsNull(body.preferredAreas) THEN <<>>
                      ELSE Val(body.preferredAreas)
        inputLocations == IF IsNull(body.preferredLocations) THEN <<>>
                          ELSE Val(body.preferredLocations)
        normalizedAreas == IF Len(inputAreas) > 0 THEN inputAreas ELSE inputLocations
        normalizedLocations ==
            IF Len(inputLocations) > 0 THEN inputLocations ELSE normalizedAreas
        budget == toNumberOrNull(body.budget)
    IN  [budget |-> IF IsNull(budget) THEN Num(DefaultBudget) ELSE budget,
         minBedrooms |-> toNumberOrNull(body.minBedrooms),
         preferredAreas |-> normalizedAreas,
         preferredLocations |-> normalizedLocations]

\* the comparator with its operands exchanged: af - bf
compareByFinalScore_ascending(a, b) ==
    a.scoring.final_score - b.scoring.final_score

\* Array.prototype.sort with the handler's comparator (a, b) => bf - af: the
\* sort of ECMAScript is stable, so an element goes after every element the
\* comparator does not put behind it
compareByFinalScore(a, b) == b.scoring.final_score - a.scoring.final_score

RECURSIVE InsertSorted(_, _)
InsertSorted(sorted, x) ==
    IF sorted = <<>> THEN <<x>>
    ELSE IF compareByFinalScore(Head(sorted), x) <= 0
    THEN <<Head(sorted)>> \o InsertSorted(Tail(sorted), x)
    ELSE <<x>> \o sorted

RECURSIVE SortByFinalScore(_)
SortByFinalScore(list) ==
    IF list = <<>> THEN <<>>
    ELSE The({InsertSorted(sortedPrefix, list[Len(list)]) :
                 sortedPrefix \in {SortByFinalScore(SubSeq(list, 1, Len(list) - 1))}})

\* finalRecommendations.slice(0, 3)
sliceTop(list) == SubSeq(list, 1, Min(TopN, Len(list)))

\* the record the map callback returns, from the values it computed
scoredProperty(p, predictedPrice, scoreBreakdown, ruleScore, mlPriceScore, finalScore, reasoning) ==
    [id |-> p.id,
     reasoning |-> reasoning,
     matchScore |-> Num(toFixed2(finalScore)),
     listingPrice |-> p.list_price,
     modelPredictedPrice |-> predictedPrice,
     isModelApplied |-> ~IsNull(mlPriceScore),
     scores |-> scoreBreakdown,
     scoring |-> [rule_score |-> ruleScore,
                  ml_price_score |-> mlPriceScore,
                  final_score |-> finalScore],
     ml_metadata |-> [ml_used_for_property |-> ~IsNull(mlPriceScore),
                      predicted_price |-> predictedPrice]]

\* the six sub-scores the callback computes itself, and totalScore
scoreBreakdownOf(propertyForScoring, predictedPrice, prefs, ruleScore) ==
    [priceMatchScore |-> computePriceMatchScore(predictedPrice, prefs.budget),
     bedroomScore |->
        computeBedroomScore(
            Coalesce(propertyForScoring.bedrooms,
                     Coalesce(propertyForScoring.beds,
                              propertyForScoring.characteristics.beds)),
            prefs.minBedrooms),
     schoolRatingScore |->
        computeSchoolRatingScore(
            Coalesce(propertyForScoring.school_rating,
                     propertyForScoring.characteristics.school_rating)),
     commuteScore |->
        computeCommuteScore(
            Coalesce(propertyForScoring.commute_time,
                     propertyForScoring.characteristics.commute_time)),
     propertyAgeScore |->
        computePropertyAgeScore(
            Coalesce(propertyForScoring.property_age,
                     propertyForScoring.characteristics.property_age)),
     amenitiesScore |->
        computeAmenitiesScore(
            Coalesce(propertyForScoring.amenities,
                     Coalesce(propertyForScoring.characteristics.amenities,
                              Num(<<>>)))),
     totalScore |-> Num(toFixed2(ruleScore))]

blendProperty(p, predictedPrice, scoreBreakdown, ruleScore, mlPriceScore, reasoning) ==
    scoredProperty(p, predictedPrice, scoreBreakdown, ruleScore, mlPriceScore,
                   computeFinalScore(ruleScore, mlPriceScore), reasoning)

scoreProperty(p, propertyForScoring, predictedPrice, prefs, ruleScore) ==
    blendProperty(p, predictedPrice,
                  scoreBreakdownOf(propertyForScoring, predictedPrice, prefs,
                                   ruleScore),
                  ruleScore,
                  IF ~IsNull(predictedPrice)
                  THEN priceToScore(predictedPrice, prefs.budget) ELSE Null,
                  buildReason(propertyForScoring, prefs))

enrichWithPrice(p, propertyForScoring, predictedPrice, prefs) ==
    The({scoreProperty(p, propertyForScoring, predictedPrice, prefs, ruleScore) :
             ruleScore \in {computeRuleScore(propertyForScoring, prefs)}})

enrichPredicted(p, predictedPrice, prefs) ==
    The({enrichWithPrice(p, propertyForScoring, predictedPrice, prefs) :
             propertyForScoring \in
                 {[p EXCEPT !.price = Coalesce(p.list_price, p.price),
                            !.predicted_price = predictedPrice]}})

\* the body of properties.map((p) => ...) in the handler
enrichProperty(p, prefs, mlScoreById) ==
    The({enrichPredicted(p, predictedPrice, prefs) :
             predictedPrice \in
                 {IF p.id \in DOMAIN mlScoreById
                  THEN Num(mlScoreById[p.id]) ELSE Null}})

----------------------------------------------------------------------------
(* case-study-B-ml-recommender/backend-node/src/services/mlClient.js *)

EmptyScores == [k \in {} |-> 0]

\* a gateway that keeps every entry of the reply, without the typeof check
getMlScoresForProperties_keepAll(result) ==
    IF result.rejected
    THEN [threw |-> FALSE, scoresById |-> EmptyScores, anyPrediction |-> FALSE]
    ELSE LET predictions == IF IsNull(result.predictions)
                            THEN EmptyScores ELSE Val(result.predictions)
         IN  [threw |-> FALSE,
              scoresById |-> [key \in DOMAIN predictions |-> predictions[key].v],
              anyPrediction |-> DOMAIN predictions # {}]

\* what axios.post gave: a reply body (2xx), or a rejection (transport error,
\* non-2xx status, timeout).  predictions maps an id to the predicted_price
\* of its entry: a number, something that is no number, or no entry at all.
getMlScoresForProperties(result) ==
    IF result.rejected
    THEN \* caught: "return empty scores; caller will handle fallback"
         [threw |-> FALSE, scoresById |-> EmptyScores, anyPrediction |-> FALSE]
    ELSE LET predictions == IF IsNull(result.predictions)
                            THEN EmptyScores ELSE Val(result.predictions)
             numeric == {key \in DOMAIN predictions : predictions[key].t = "num"}
         IN  [threw |-> FALSE,
              scoresById |-> [key \in numeric |-> predictions[key].v],
              anyPrediction |-> numeric # {}]

----------------------------------------------------------------------------
(* The catalog.  The data files are not part of the sources; the records     *)
(* below follow the Property typedef and the field names the code reads.     *)

MaxCatalog == 4

sAustin == <<"A", "u", "s", "t", "i", "n">>
sBoston == <<"B", "o", "s", "t", "o", "n">>
sMiami == <<"M", "i", "a", "m", "i">>
sFL == <<"F", "L">>
sPool == <<"P", "o", "o", "l">>
sGarage == <<"G", "a", "r", "a", "g", "e">>
sBackyard == <<"B", "a", "c", "k", "y", "a", "r", "d">>
sGym == <<"G", "y", "m">>
sGARDEN == <<" ", "G", "A", "R", "D", "E", "N">>
sBlank == <<" ">>

NoCharacteristics ==
    [bedrooms |-> Null, beds |-> Null, school_rating |-> Null,
     commute_time |-> Null, property_age |-> Null, amenities |-> Null]

BlankProperty ==
    [id |-> 0, price |-> Null, list_price |-> Null, predicted_price |-> Null,
     modelPredictedPrice |-> Null, ml_metadata |-> Null,
     location |-> Null, city |-> Null, neighbourhood |-> Null, state |-> Null,
     bedrooms |-> Null, beds |-> Null, school_rating |-> Null,
     commute_time |-> Null, property_age |-> Null, amenities |-> Null,
     characteristics |-> NoCharacteristics]

PropertyPool ==
    << [BlankProperty EXCEPT
            !.price = Num(300), !.location = Num(sAustin), !.bedrooms = Num(3),
            !.school_rating = Num(8), !.commute_time = Num(20),
            !.property_age = Num(4), !.amenities = Num(<<sPool, sGarage>>)],
       [BlankProperty EXCEPT
            !.price = Num(200), !.location = Num(sAustin), !.bedrooms = Num(3),
            !.school_rating = Num(8), !.commute_time = Num(20),
            !.property_age = Num(4), !.amenities = Num(<<sPool, sGarage>>)],
       [BlankProperty EXCEPT
            !.price = Num(350), !.location = Num(sBoston),
            !.characteristics =
                [NoCharacteristics EXCEPT
                    !.bedrooms = Num(2),
                    !.amenities = Num(<<sBackyard, sBlank, sGym>>)]],
       [BlankProperty EXCEPT
            !.list_price = Num(380), !.city = Num(sMiami), !.state = Num(sFL),
            !.modelPredictedPrice = Num(300),
            !.bedrooms = Num(1), !.school_rating = Num(12),
            !.commute_time = Num(50), !.property_age = Num(40),
            !.amenities = Num(<<>>),
            !.characteristics =
                [NoCharacteristics EXCEPT !.amenities = Num(<<sGARDEN>>)]],
       [BlankProperty EXCEPT
            !.price = Num(150), !.location = Num(<<" ">> \o sAustin),
            !.beds = Num(4),
            !.characteristics =
                [NoCharacteristics EXCEPT
                    !.school_rating = Num(6), !.commute_time = Num(10),
                    !.property_age = Num(20),
                    !.amenities = Num(<<sGARDEN, sPool, sGarage>>)]],
       [BlankProperty EXCEPT
            !.price = Num(100), !.location = Num(sMiami),
            !.characteristics = [NoCharacteristics EXCEPT !.beds = Num(2)]] >>

Catalog ==
    [i \in 1..MaxCatalog |->
        [PropertyPool[((i - 1) % Len(PropertyPool)) + 1] EXCEPT !.id = i]]

----------------------------------------------------------------------------
(* Inputs *)

BudgetInputs == {JNull, JEmpty, JNum(0), JNum(0 - 200), JNumStr(400)}
MinBedroomInputs == {JNull, JNum(0), JNum(2)}
AreaInputs == {Null, Num(<<sAustin>>), Num(<<sBoston>>), Num(<<sMiami>>)}
LocationInputs == {Null}

Requests ==
    [budget : BudgetInputs, minBedrooms : MinBedroomInputs,
     preferredAreas : AreaInputs, preferredLocations : LocationInputs]

\* the predicted_price of one entry of a reply
EntryInputs == {JAbsent, JText, JNum(0 - 400), JNum(0), JNum(200), JNum(600)}

Replies(batch) ==
    LET ids == {batch[i].id : i \in 1..Len(batch)}
    IN  {[rejected |-> FALSE, predictions |-> Null]}
        \cup {[rejected |-> FALSE, predictions |-> Num(f)] : f \in [ids -> EntryInputs]}

Rejection == [rejected |-> TRUE, predictions |-> Null]
NoAxiosResult == [rejected |-> FALSE, predictions |-> Null]

----------------------------------------------------------------------------
(* POST /recommendations *)

NoRequest ==
    [budget |-> JNull, minBedrooms |-> JNull,
     preferredAreas |-> Null, preferredLocations |-> Null]
NoMlResult == [threw |-> FALSE, scoresById |-> EmptyScores, anyPrediction |-> FALSE]

\* responsePayload, from the sorted list and the handler's flags
responsePayload(sorted, mlUsed, mlFallbackMessage) ==
    [ml_used |-> mlUsed,
     ml_fallback_detected |-> ~IsNull(mlFallbackMessage),
     ml_fallback_message |-> mlFallbackMessage,
     diagnostics |->
        [total_properties |-> Len(sorted),
         properties_with_ml_scores |->
            Cardinality({i \in 1..Len(sorted) :
                             sorted[i].ml_metadata.ml_used_for_property})],
     recommendations |-> sliceTop(sorted)]

\* the handler without its check for a call that gave no prediction
fallbackMessage_noEmptyCheck(mlCallSucceeded, mlAnyPrediction, caughtMessage) ==
    caughtMessage

\* the fallback message: the one set in the handler's catch, else the one for
\* a call that succeeded without any prediction
fallbackMessage(mlCallSucceeded, mlAnyPrediction, caughtMessage) ==
    IF mlCallSucceeded /\ ~mlAnyPrediction /\ IsNull(caughtMessage)
    THEN Num(MsgNoUsable) ELSE caughtMessage

\* enriched.sort(...), then the payload
sortAndRespond(scored, mlCallSucceeded, mlAnyPrediction, caughtMessage) ==
    The({[scored |-> scored,
          payload |->
             responsePayload(sorted,
                             mlCallSucceeded /\ mlAnyPrediction,
                             fallbackMessage(mlCallSucceeded, mlAnyPrediction,
                                             caughtMessage))] :
             sorted \in {SortByFinalScore(scored)}})

\* const enriched = properties.map(...), then the rest
scoreAll(props, prefs, mlScoreById, mlCallSucceeded, anyPrediction, caughtMessage) ==
    The({sortAndRespond(scored, mlCallSucceeded,
                        mlCallSucceeded /\ anyPrediction /\ DOMAIN mlScoreById # {},
                        caughtMessage) :
             scored \in
                 {[i \in 1..Len(props) |->
                      enrichProperty(props[i], prefs, mlScoreById)]}})

\* the handler from the gateway's return (or from the skipped call) to res.json:
\* called says whether the gateway was invoked, ml is what it returned
respond(props, prefs, called, ml) ==
    scoreAll(props, prefs,
             IF called /\ ~ml.threw THEN ml.scoresById ELSE EmptyScores,
             called /\ ~ml.threw,
             ml.anyPrediction,
             IF called /\ ml.threw THEN Num(MsgUnavailable) ELSE Null)

\* the handler's state once res.json has been given r
Responded(r) ==
    /\ pc' = "responded"
    /\ enriched' = r.scored
    /\ response' = Num(r.payload)

\* a gateway that posts every property on its own
Awaiting_perProperty(batch) ==
    /\ gatewayCalls' = [i \in 1..Len(batch) |-> <<batch[i]>>]
    /\ pc' = "awaiting"
    /\ enriched' = <<>>
    /\ response' = Null

\* the handler's state at its await, the batch posted
Awaiting(batch) ==
    /\ gatewayCalls' = <<batch>>
    /\ pc' = "awaiting"
    /\ enriched' = <<>>
    /\ response' = Null

Filtered(body, prefs, props, batch) ==
    /\ request' = body
    /\ preferences' = prefs
    /\ properties' = props
    /\ propertiesForML' = batch
    /\ outcome' = "none"
    /\ axiosResult' = NoAxiosResult
    /\ mlResult' = NoMlResult
    /\ IF Len(batch) > 0
       THEN Awaiting(batch)
       ELSE /\ gatewayCalls' = <<>>
            /\ \E r \in {respond(props, prefs, FALSE, NoMlResult)} : Responded(r)

\* the handler up to its await: normalize, filter, build the batch, and post
\* it; with an empty batch there is no call and the handler runs to res.json
ReceiveRequest(body) ==
    /\ pc = "idle"
    /\ \E prefs \in {normalizePreferences(body)} :
       \E props \in {filterProperties(fullProperties, prefs)} :
       \E batch \in {[i \in 1..Len(props) |-> buildPropertyForML(props[i])]} :
           Filtered(body, prefs, props, batch)
    /\ UNCHANGED <<fullProperties, fnCall, handlers, caseA>>

Returned(how, ml) ==
    /\ outcome' = how
    /\ mlResult' = ml
    /\ \E r \in {respond(properties, preferences, TRUE, ml)} : Responded(r)

\* the await resolves: the rest of getMlScoresForProperties, then the rest of
\* the handler
Resume(how, result) ==
    /\ axiosResult' = result
    /\ \E ml \in {getMlScoresForProperties(result)} : Returned(how, ml)
    /\ UNCHANGED <<fullProperties, request, preferences, properties,
                   propertiesForML, gatewayCalls, fnCall, handlers, caseA>>

\* the predictor answers 2xx with some body
GatewayReply ==
    /\ pc = "awaiting"
    /\ \E reply \in Replies(propertiesForML) : Resume("reply", reply)

\* transport error or non-2xx status: axios rejects
GatewayError ==
    /\ pc = "awaiting"
    /\ Resume("error", Rejection)

\* axios.post without the timeout option: no timer, a pending call stays pending
GatewayTimeout_noTimeoutOption ==
    /\ pc = "awaiting"
    /\ FALSE
    /\ UNCHANGED vars

\* no answer within the timeout given to axios.post: axios rejects
GatewayTimeout ==
    /\ pc = "awaiting"
    /\ Resume("timeout", Rejection)

NoCall == [fn |-> "none", args |-> <<>>, out |-> 0]

\* how many /save-property requests can be in flight at once
MaxSaveInFlight == 2
SaveSlots == 1..MaxSaveInFlight

\* a /save-property handler that is not running
IdleSave ==
    [pc |-> "idle", body |-> [userId |-> Null, propertyId |-> Null],
     status |-> 0, success |-> FALSE, persistenceEnabled |-> FALSE]

\* readyState of mongoose.connection
Disconnected == 0
Connected == 1
Connecting == 2

\* the Case A process before its server.js has run
CaseANotStarted ==
    [started |-> FALSE, uriSet |-> FALSE, connectDB |-> "not called",
     isDbConnected |-> FALSE, readyState |-> Disconnected,
     savedProperties |-> <<>>, saves |-> [slot \in SaveSlots |-> IdleSave]]

\* how many invocations of the handler can be in flight at once
MaxInFlight == 2
Handlers == 1..MaxInFlight

\* an invocation that has not started: its const and let bindings do not exist
IdleHandler ==
    [pc |-> "idle", request |-> NoRequest,
     preferences |-> normalizePreferences(NoRequest), properties |-> <<>>,
     propertiesForML |-> <<>>, outcome |-> "none",
     axiosResult |-> NoAxiosResult, response |-> Null]

Init ==
    /\ fullProperties = Catalog
    /\ pc = "idle"
    /\ request = NoRequest
    /\ preferences = normalizePreferences(NoRequest)
    /\ properties = <<>>
    /\ propertiesForML = <<>>
    /\ gatewayCalls = <<>>
    /\ outcome = "none"
    /\ axiosResult = NoAxiosResult
    /\ mlResult = NoMlResult
    /\ enriched = <<>>
    /\ response = Null
    /\ fnCall = NoCall
    /\ handlers = [h \in Handlers |-> IdleHandler]
    /\ caseA = CaseANotStarted

\* res.json has sent the payload and the handler has returned: everything it
\* built is dropped, and the server waits for the next request
Finish ==
    /\ pc = "responded"
    /\ pc' = "idle"
    /\ request' = NoRequest
    /\ preferences' = normalizePreferences(NoRequest)
    /\ properties' = <<>>
    /\ propertiesForML' = <<>>
    /\ gatewayCalls' = <<>>
    /\ outcome' = "none"
    /\ axiosResult' = NoAxiosResult
    /\ mlResult' = NoMlResult
    /\ enriched' = <<>>
    /\ response' = Null
    /\ UNCHANGED <<fullProperties, fnCall, handlers, caseA>>

Next ==
    \/ \E body \in Requests : ReceiveRequest(body)
    \/ GatewayReply
    \/ GatewayError
    \/ GatewayTimeout
    \/ Finish

Spec == Init /\ [][Next]_vars

\* The timeout given to axios.post is a timer of the event loop: a call that is
\* still pending when it expires is rejected, whatever the predictor does.
\* Nothing makes the predictor answer, and nothing makes a client send a request.
LiveSpec == Spec /\ WF_vars(GatewayTimeout)

----------------------------------------------------------------------------
(* Overlapping requests *)

\* Node runs one handler at a time up to its await; while it is suspended at
\* axios.post other invocations start, resume and finish.  Every binding of the
\* handler is a const or let of the invocation; fullProperties and
\* rawCharacteristicsById are the only bindings of the module, and are read.

ConcRequests ==
    {[budget |-> JNumStr(400), minBedrooms |-> JNull,
      preferredAreas |-> Null, preferredLocations |-> Null],
     [budget |-> JNull, minBedrooms |-> JNum(2),
      preferredAreas |-> Null, preferredLocations |-> Null],
     [budget |-> JNum(0), minBedrooms |-> JNull,
      preferredAreas |-> Num(<<sAustin>>), preferredLocations |-> Null]}

\* replies that give every posted property the same entry, or no predictions
ConcReplies(batch) ==
    LET ids == {batch[i].id : i \in 1..Len(batch)}
    IN  {[rejected |-> FALSE, predictions |-> Null]}
        \cup {[rejected |-> FALSE, predictions |-> Num([id \in ids |-> e])] :
                  e \in {JNum(200), JNum(600)}}

\* preferences and properties kept in bindings of the module: an invocation
\* that resumes finds those of another invocation that is still waiting
localsOf_moduleScope(h) ==
    LET others == {k \in Handlers : k # h /\ handlers[k].pc = "awaiting"}
    IN  IF others = {} THEN handlers[h]
        ELSE handlers[CHOOSE k \in others : TRUE]

\* the bindings the closure of invocation h holds when it resumes
localsOf(h) == handlers[h]

ConcStarted(h, body, prefs, props, batch) ==
    handlers' =
        [handlers EXCEPT ![h] =
            [pc |-> IF Len(batch) > 0 THEN "awaiting" ELSE "responded",
             request |-> body, preferences |-> prefs, properties |-> props,
             propertiesForML |-> batch, outcome |-> "none",
             axiosResult |-> NoAxiosResult,
             response |->
                 IF Len(batch) > 0 THEN Null
                 ELSE Num(respond(props, prefs, FALSE, NoMlResult).payload)]]

\* invocation h up to its await (or to res.json when nothing is posted)
ConcReceive(h, body) ==
    /\ handlers[h].pc = "idle"
    /\ \E prefs \in {normalizePreferences(body)} :
       \E props \in {filterProperties(fullProperties, prefs)} :
       \E batch \in {[i \in 1..Len(props) |-> buildPropertyForML(props[i])]} :
           ConcStarted(h, body, prefs, props, batch)
    /\ UNCHANGED <<pipelineVars, fnCall, caseA>>

\* the await of invocation h resolves: the rest of the gateway and of the handler
ConcResume(h, how, result) ==
    /\ \E own \in {localsOf(h)} :
       \E ml \in {getMlScoresForProperties(result)} :
       \E r \in {respond(own.properties, own.preferences, TRUE, ml)} :
           handlers' =
               [handlers EXCEPT ![h] =
                   [handlers[h] EXCEPT !.pc = "responded", !.outcome = how,
                                       !.axiosResult = result,
                                       !.response = Num(r.payload)]]
    /\ UNCHANGED <<pipelineVars, fnCall, caseA>>

ConcGatewayReply(h) ==
    /\ handlers[h].pc = "awaiting"
    /\ \E reply \in ConcReplies(handlers[h].propertiesForML) :
           ConcResume(h, "reply", reply)

ConcGatewayError(h) ==
    /\ handlers[h].pc = "awaiting"
    /\ ConcResume(h, "error", Rejection)

ConcGatewayTimeout(h) ==
    /\ handlers[h].pc = "awaiting"
    /\ ConcResume(h, "timeout", Rejection)

\* res.json has sent the payload of invocation h and its bindings are dropped
ConcFinish(h) ==
    /\ handlers[h].pc = "responded"
    /\ handlers' = [handlers EXCEPT ![h] = IdleHandler]
    /\ UNCHANGED <<pipelineVars, fnCall, caseA>>

ConcNext ==
    \/ \E h \in Handlers : \E body \in ConcRequests : ConcReceive(h, body)
    \/ \E h \in Handlers : ConcGatewayReply(h)
    \/ \E h \in Handlers : ConcGatewayError(h)
    \/ \E h \in Handlers : ConcGatewayTimeout(h)
    \/ \E h \in Handlers : ConcFinish(h)

ConcSpec == Init /\ [][ConcNext]_vars

----------------------------------------------------------------------------
(* Case A: config/db.js and POST /save-property of routes/chatRoutes.js *)

\* the most SavedProperty documents the collection is let to hold
MaxSaved == 2

\* server.js: connectDB() is called, and not awaited, when MONGODB_URI is
\* set; connectDB runs up to its await of mongoose.connect
StartCaseA(uriSet) ==
    /\ ~caseA.started
    /\ caseA' = [caseA EXCEPT
                    !.started = TRUE, !.uriSet = uriSet,
                    !.connectDB = IF uriSet THEN "awaiting" ELSE "not called",
                    !.readyState = IF uriSet THEN Connecting ELSE Disconnected]
    /\ UNCHANGED <<pipelineVars, fnCall, handlers>>

\* mongoose.connect resolves: the connection is open, connectDB sets its flag
ConnectResolves ==
    /\ caseA.connectDB = "awaiting"
    /\ caseA' = [caseA EXCEPT !.connectDB = "returned", !.readyState = Connected,
                              !.isDbConnected = TRUE]
    /\ UNCHANGED <<pipelineVars, fnCall, handlers>>

\* mongoose.connect rejects: the catch of connectDB
ConnectRejects ==
    /\ caseA.connectDB = "awaiting"
    /\ caseA' = [caseA EXCEPT !.connectDB = "returned",
                              !.readyState = Disconnected,
                              !.isDbConnected = FALSE]
    /\ UNCHANGED <<pipelineVars, fnCall, handlers>>

\* the open connection drops: mongoose sets readyState, nothing resets the flag
ConnectionLost ==
    /\ caseA.readyState = Connected
    /\ caseA' = [caseA EXCEPT !.readyState = Disconnected]
    /\ UNCHANGED <<pipelineVars, fnCall, handlers>>

\* mongoose reconnects a connection that had been open
Reconnected ==
    /\ caseA.isDbConnected
    /\ caseA.readyState = Disconnected
    /\ caseA' = [caseA EXCEPT !.readyState = Connected]
    /\ UNCHANGED <<pipelineVars, fnCall, handlers>>

SaveBodies ==
    [userId : {Null, Num(""), Num("demo")},
     propertyId : {Null, Num(2), Num(99)}]

\* a gate that trusts the flag of connectDB alone
persistenceAvailable_flagOnly == caseA.isDbConnected

\* !(!isDbConnected || mongoose.connection.readyState !== 1)
persistenceAvailable ==
    caseA.isDbConnected /\ caseA.readyState = Connected

\* (joinedProperties || []).find((p) => p.id == propertyId)
foundInDataset(propertyId) ==
    \E i \in 1..Len(Catalog) : Catalog[i].id = Val(propertyId)

\* the handler up to its return, or to its await of SavedProperty.create
saveProperty(body) ==
    IF IsNull(body.propertyId) \/ IsNull(body.userId) \/ Val(body.userId) = ""
    THEN [pc |-> "responded", body |-> body, status |-> 400,
          success |-> FALSE, persistenceEnabled |-> FALSE]
    ELSE IF ~persistenceAvailable
    THEN [pc |-> "responded", body |-> body, status |-> 200,
          success |-> FALSE, persistenceEnabled |-> FALSE]
    ELSE IF ~foundInDataset(body.propertyId)
    THEN [pc |-> "responded", body |-> body, status |-> 404,
          success |-> FALSE, persistenceEnabled |-> FALSE]
    ELSE [pc |-> "creating", body |-> body, status |-> 0,
          success |-> FALSE, persistenceEnabled |-> FALSE]

\* the documents stored and the creates still pending
SavesCommitted ==
    Len(caseA.savedProperties)
    + Cardinality({slot \in SaveSlots : caseA.saves[slot].pc = "creating"})

SaveReceive(slot, body) ==
    /\ caseA.started
    /\ caseA.saves[slot].pc = "idle"
    /\ SavesCommitted < MaxSaved
    /\ caseA' = [caseA EXCEPT !.saves[slot] = saveProperty(body)]
    /\ UNCHANGED <<pipelineVars, fnCall, handlers>>

\* SavedProperty.create resolves: the document is stored, 201
CreateResolves(slot) ==
    /\ caseA.saves[slot].pc = "creating"
    /\ caseA.readyState = Connected
    /\ caseA' =
           [caseA EXCEPT
               !.savedProperties =
                   Append(@, [userId |-> Val(caseA.saves[slot].body.userId),
                              propertyId |-> Val(caseA.saves[slot].body.propertyId)]),
               !.saves[slot] =
                   [@ EXCEPT !.pc = "responded", !.status = 201,
                             !.success = TRUE, !.persistenceEnabled = TRUE]]
    /\ UNCHANGED <<pipelineVars, fnCall, handlers>>

\* SavedProperty.create rejects: the catch of the handler, 500
CreateRejects(slot) ==
    /\ caseA.saves[slot].pc = "creating"
    /\ caseA' =
           [caseA EXCEPT
               !.saves[slot] =
                   [@ EXCEPT !.pc = "responded", !.status = 500,
                             !.success = FALSE, !.persistenceEnabled = TRUE]]
    /\ UNCHANGED <<pipelineVars, fnCall, handlers>>

\* the response is sent and the handler is gone
SaveFinish(slot) ==
    /\ caseA.saves[slot].pc = "responded"
    /\ caseA' = [caseA EXCEPT !.saves[slot] = IdleSave]
    /\ UNCHANGED <<pipelineVars, fnCall, handlers>>

SaveNext ==
    \/ \E uriSet \in BOOLEAN : StartCaseA(uriSet)
    \/ ConnectResolves
    \/ ConnectRejects
    \/ ConnectionLost
    \/ Reconnected
    \/ \E slot \in SaveSlots : \E body \in SaveBodies : SaveReceive(slot, body)
    \/ \E slot \in SaveSlots : CreateResolves(slot)
    \/ \E slot \in SaveSlots : CreateRejects(slot)
    \/ \E slot \in SaveSlots : SaveFinish(slot)

SaveSpec == Init /\ [][SaveNext]_vars

----------------------------------------------------------------------------
(* Direct calls of the scoring functions, on inputs drawn from small sets *)

SubScoreInputs == {0 - Pts(10), 0, Pts(100) \div 3, Pts(100), Pts(120)}
PriceInputs ==
    {Null, Num(0 - 400), Num(0), Num(200), Num(400), Num(600), Num(800), Num(1000),
     Num(3000)}
BudgetValues == {Null, Num(0 - 200), Num(0), Num(250), Num(400)}

CallComputeTotalScore ==
    /\ fnCall.fn = "none"
    /\ \E p, b, sc, c, a, am \in SubScoreInputs :
           fnCall' =
               [fn |-> "computeTotalScore",
                args |-> <<p, b, sc, c, a, am>>,
                out |-> computeTotalScore(
                            [priceMatchScore |-> Num(p), bedroomScore |-> Num(b),
                             schoolRatingScore |-> Num(sc), commuteScore |-> Num(c),
                             propertyAgeScore |-> Num(a),
                             amenitiesScore |-> Num(am)])]
    /\ UNCHANGED <<pipelineVars, handlers, caseA>>

CallComputePriceMatchScore ==
    /\ fnCall.fn = "none"
    /\ \E price \in PriceInputs, budget \in BudgetValues :
           fnCall' = [fn |-> "computePriceMatchScore",
                      args |-> <<price, budget>>,
                      out |-> computePriceMatchScore(price, budget)]
    /\ UNCHANGED <<pipelineVars, handlers, caseA>>

\* two calls with the same budget
ComparePriceMatchScores ==
    /\ fnCall.fn = "none"
    /\ \E p1, p2 \in PriceInputs, budget \in BudgetValues :
           fnCall' = [fn |-> "computePriceMatchScore twice",
                      args |-> <<p1, p2, budget>>,
                      out |-> <<computePriceMatchScore(p1, budget),
                                computePriceMatchScore(p2, budget)>>]
    /\ UNCHANGED <<pipelineVars, handlers, caseA>>

BedroomInputs ==
    {Null, Num(0 - 1), Num(0), Num(1), Num(2), Num(3), Num(5), Num(3000)}
MinBedroomValues == {Null, Num(0 - 2), Num(0), Num(2), Num(3), Num(4)}

CallComputeBedroomScore ==
    /\ fnCall.fn = "none"
    /\ \E beds \in BedroomInputs, minBedrooms \in MinBedroomValues :
           fnCall' = [fn |-> "computeBedroomScore",
                      args |-> <<beds, minBedrooms>>,
                      out |-> computeBedroomScore(beds, minBedrooms)]
    /\ UNCHANGED <<pipelineVars, handlers, caseA>>

CallPriceToScore ==
    /\ fnCall.fn = "none"
    /\ \E price \in PriceInputs, budget \in BudgetValues :
           fnCall' = [fn |-> "priceToScore",
                      args |-> <<price, budget>>,
                      out |-> priceToScore(price, budget)]
    /\ UNCHANGED <<pipelineVars, handlers, caseA>>

\* ratings, minutes and years: null, negative, zero, around every threshold
\* of the three scorers, and very large
MeasureInputs ==
    {Null, Num(0 - 3000), Num(0 - 5), Num(0), Num(5), Num(6), Num(7), Num(10),
     Num(15), Num(16), Num(20), Num(30), Num(31), Num(45), Num(46),
     Num(3000)}

CallComputeSchoolRatingScore ==
    /\ fnCall.fn = "none"
    /\ \E schoolRating \in MeasureInputs :
           fnCall' = [fn |-> "computeSchoolRatingScore",
                      args |-> <<schoolRating>>,
                      out |-> computeSchoolRatingScore(schoolRating)]
    /\ UNCHANGED <<pipelineVars, handlers, caseA>>

CallComputeCommuteScore ==
    /\ fnCall.fn = "none"
    /\ \E commuteTime \in MeasureInputs :
           fnCall' = [fn |-> "computeCommuteScore",
                      args |-> <<commuteTime>>,
                      out |-> computeCommuteScore(commuteTime)]
    /\ UNCHANGED <<pipelineVars, handlers, caseA>>

CallComputePropertyAgeScore ==
    /\ fnCall.fn = "none"
    /\ \E propertyAge \in MeasureInputs :
           fnCall' = [fn |-> "computePropertyAgeScore",
                      args |-> <<propertyAge>>,
                      out |-> computePropertyAgeScore(propertyAge)]
    /\ UNCHANGED <<pipelineVars, handlers, caseA>>

sPoolside == <<"P", "o", "o", "l", "s", "i", "d", "e">>

\* the longest amenity list passed to the scorer
MaxAmenities == 3

\* amenity strings: the keywords in other casings, padded or inside a longer
\* word, a string of no family, a blank one and the empty one
AmenityWords == {sPool, sPoolside, sGarage, sBackyard, sGARDEN, sGym, sBlank, <<>>}

\* an absent list, or a list of up to MaxAmenities strings
AmenityLists ==
    {Null} \cup
    {Num(l) : l \in UNION {[1..n -> AmenityWords] : n \in 0..MaxAmenities}}

CallComputeAmenitiesScore ==
    /\ fnCall.fn = "none"
    /\ \E amenities \in AmenityLists :
           fnCall' = [fn |-> "computeAmenitiesScore",
                      args |-> <<amenities>>,
                      out |-> computeAmenitiesScore(amenities)]
    /\ UNCHANGED <<pipelineVars, handlers, caseA>>

\* records that differ in what getReasonParts reads for the price remark
PriceRemarkProperties ==
    {[BlankProperty EXCEPT !.predicted_price = predicted,
                           !.modelPredictedPrice = carried,
                           !.price = price, !.list_price = listPrice] :
        predicted \in {Null, Num(0), Num(200), Num(600)},
        carried \in {Null, Num(300)},
        price \in {Null, Num(0), Num(300)},
        listPrice \in {Null, Num(380)}}

CallGetReasonParts ==
    /\ fnCall.fn = "none"
    /\ \E property \in PriceRemarkProperties, budget \in BudgetValues :
       \E prefs \in {[budget |-> budget, minBedrooms |-> Null,
                      preferredAreas |-> <<>>, preferredLocations |-> <<>>]} :
           fnCall' = [fn |-> "getReasonParts",
                      args |-> <<property, prefs>>,
                      out |-> getReasonParts(property, prefs)]
    /\ UNCHANGED <<pipelineVars, handlers, caseA>>

\* records that differ in what decides which remarks there are
RemarkProperties ==
    {[BlankProperty EXCEPT !.predicted_price = predicted, !.price = price,
                           !.bedrooms = bedrooms, !.location = location,
                           !.amenities = amenities,
                           !.characteristics =
                               [NoCharacteristics EXCEPT !.amenities = nested]] :
        predicted \in {Null, Num(200)},
        price \in {Null, Num(300)},
        bedrooms \in {Null, Num(2), Num(3)},
        location \in {Null, Num(sAustin), Num(sBoston)},
        amenities \in {Null, Num(<<>>), Num(<<sBlank>>), Num(<<sPool, sBlank, sGym>>)},
        nested \in {Null, Num(<<sGARDEN>>)}}

RemarkPreferences ==
    [budget : {Null, Num(400)}, minBedrooms : {Null, Num(0), Num(2), Num(3)},
     preferredAreas : {<<>>, <<sAustin>>}, preferredLocations : {<<>>}]

CallBuildReason ==
    /\ fnCall.fn = "none"
    /\ \E property \in RemarkProperties, prefs \in RemarkPreferences :
           fnCall' = [fn |-> "buildReason",
                      args |-> <<property, prefs>>,
                      out |-> buildReason(property, prefs)]
    /\ UNCHANGED <<pipelineVars, handlers, caseA>>

\* the call has returned to its caller
FnReturn ==
    /\ fnCall.fn # "none"
    /\ fnCall' = NoCall
    /\ UNCHANGED <<pipelineVars, handlers, caseA>>

FnNext ==
    \/ CallComputeTotalScore
    \/ CallComputePriceMatchScore
    \/ ComparePriceMatchScores
    \/ CallComputeBedroomScore
    \/ CallPriceToScore
    \/ CallComputeSchoolRatingScore
    \/ CallComputeCommuteScore
    \/ CallComputePropertyAgeScore
    \/ CallComputeAmenitiesScore
    \/ CallGetReasonParts
    \/ CallBuildReason
    \/ FnReturn

FnSpec == Init /\ [][FnNext]_vars

----------------------------------------------------------------------------
(* Claims about POST /recommendations *)

Payload == Val(response)
Recs == Payload.recommendations
HasResponded == pc = "responded"

\* the call failed entirely: axios rejected (transport error, non-success
\* status, timeout), or the 2xx body holds no predictions object
GatewayFailed ==
    \/ outcome \in {"error", "timeout"}
    \/ outcome = "reply" /\ IsNull(axiosResult.predictions)

\* the call succeeded and some entry holds a numeric predicted_price
UsablePredictions ==
    /\ outcome = "reply"
    /\ ~IsNull(axiosResult.predictions)
    /\ \E id \in DOMAIN Val(axiosResult.predictions) :
           Val(axiosResult.predictions)[id].t = "num"

\* C1: when the gateway call fails entirely the request still gets a normal
\* response: no property is marked as scored with the model, every
\* modelPredictedPrice is null, ml_used is false, ml_fallback_detected is true
\* with a message, and every final score is the rule score.
C1_FailedCallFallsBack ==
    (HasResponded /\ GatewayFailed) =>
        /\ ~IsNull(response)
        /\ ~Payload.ml_used
        /\ Payload.ml_fallback_detected
        /\ ~IsNull(Payload.ml_fallback_message)
        /\ \A i \in 1..Len(Recs) :
               /\ ~Recs[i].ml_metadata.ml_used_for_property
               /\ ~Recs[i].isModelApplied
               /\ IsNull(Recs[i].modelPredictedPrice)
               /\ Recs[i].scoring.final_score = Recs[i].scoring.rule_score

C1_Witness ==
    /\ HasResponded
    /\ outcome = "timeout"
    /\ Len(Recs) = 3
    /\ Payload.ml_fallback_detected

\* the position of a property in the catalog
CatalogPos(id) == CHOOSE k \in 1..Len(fullProperties) : fullProperties[k].id = id
\* the final score the handler computed for a filtered property
FinalOf(id) ==
    LET k == CHOOSE j \in 1..Len(enriched) : enriched[j].id = id
    IN  enriched[k].scoring.final_score
\* a comes before b in the order: final score descending, ties in catalog order
Before(a, b) ==
    \/ FinalOf(a) > FinalOf(b)
    \/ FinalOf(a) = FinalOf(b) /\ CatalogPos(a) < CatalogPos(b)

\* C2: the recommendations are the first min(3, n) of the n filtered
\* properties in the order final score descending, ties in catalog order:
\* n is diagnostics.total_properties, the list is in that order, and every
\* omitted property comes after every included one in that order.
C2_TopThreeStable ==
    HasResponded =>
        LET n == Payload.diagnostics.total_properties
            filteredIds == {properties[i].id : i \in 1..Len(properties)}
            includedIds == {Recs[i].id : i \in 1..Len(Recs)}
        IN  /\ n = Len(properties)
            /\ Len(Recs) = IF n < 3 THEN n ELSE 3
            /\ includedIds \subseteq filteredIds
            /\ Cardinality(includedIds) = Len(Recs)
            /\ \A i \in 1..Len(Recs) :
                   Recs[i].scoring.final_score = FinalOf(Recs[i].id)
            /\ \A i, j \in 1..Len(Recs) : i < j => Before(Recs[i].id, Recs[j].id)
            /\ \A a \in includedIds, b \in filteredIds \ includedIds : Before(a, b)

\* four properties passed, the model was used, and an omitted property ties
\* with an included one
C2_Witness ==
    /\ HasResponded
    /\ Payload.ml_used
    /\ Payload.diagnostics.total_properties > 3
    /\ \E i \in 1..Len(Recs), k \in 1..Len(enriched) :
           /\ enriched[k].id \notin {Recs[j].id : j \in 1..Len(Recs)}
           /\ enriched[k].scoring.final_score = Recs[i].scoring.final_score

\* x is y rounded to two decimals (a hundredth is Unit \div 100)
RoundedTo2(x, y) ==
    /\ x % (Unit \div 100) = 0
    /\ 2 * (x - y) <= Unit \div 100
    /\ 2 * (y - x) < Unit \div 100

\* C3: the final score of every scored property is exactly its rule score
\* when it has no price-favorability score and 0.7 rule + 0.3 favorability
\* otherwise, on unrounded values; matchScore is that final score rounded to
\* two decimals, so it equals scores.totalScore in rule-only mode.
C3_BlendUnrounded ==
    HasResponded =>
        \A i \in 1..Len(enriched) :
            LET e == enriched[i]
                rule == e.scoring.rule_score
                ml == e.scoring.ml_price_score
                final == e.scoring.final_score
            IN  /\ IsNull(ml) => final = rule
                /\ ~IsNull(ml) => 10 * final = 7 * rule + 3 * Val(ml)
                /\ RoundedTo2(Val(e.matchScore), final)
                /\ RoundedTo2(Val(e.scores.totalScore), rule)
                /\ IsNull(ml) => e.matchScore = e.scores.totalScore

\* one property scored by rule alone and one blended, both with final scores
\* that rounding changes
C3_Witness ==
    /\ HasResponded
    /\ \E i, j \in 1..Len(enriched) :
           /\ IsNull(enriched[i].scoring.ml_price_score)
           /\ Val(enriched[i].matchScore) # enriched[i].scoring.final_score
           /\ ~IsNull(enriched[j].scoring.ml_price_score)
           /\ Val(enriched[j].matchScore) # enriched[j].scoring.final_score
           /\ enriched[j].scoring.final_score # enriched[j].scoring.rule_score

\* C4: whatever numeric predicted prices the gateway returns, every
\* matchScore of a response is null or lies in [0,100].
C4_MatchScoreInRange ==
    HasResponded =>
        \A i \in 1..Len(Recs) :
            \/ IsNull(Recs[i].matchScore)
            \/ /\ Val(Recs[i].matchScore) >= 0
               /\ Val(Recs[i].matchScore) <= Pts(100)

\* C5: every request whose handler is suspended on the gateway call gets
\* its response, even when the predictor never answers.
C5_AlwaysResponds == (pc = "awaiting") ~> (pc = "responded")

C5_Witness ==
    /\ HasResponded
    /\ outcome = "timeout"
    /\ ~IsNull(response)

\* the message the handler surfaces for the same request when the call
\* succeeds and the body holds an empty predictions object (outcome b)
MessageOfEmptyReply ==
    respond(properties, preferences, TRUE,
            getMlScoresForProperties(
                [rejected |-> FALSE, predictions |-> Num(EmptyScores)])
           ).payload.ml_fallback_message

\* C6: the message surfaced when the call failed entirely (outcome c) is
\* another one than the message surfaced for the same request when the call
\* succeeds with zero usable predictions (outcome b); with a usable
\* prediction (outcome a) there is no message.
C6_DistinctMessages ==
    HasResponded =>
        /\ outcome \in {"error", "timeout"} =>
               /\ ~IsNull(Payload.ml_fallback_message)
               /\ Payload.ml_fallback_message # MessageOfEmptyReply
        /\ UsablePredictions => IsNull(Payload.ml_fallback_message)

\* C7: the gateway is invoked exactly once per request, with the whole batch
\* of the filtered properties, when some property passed the filter, and
\* not at all otherwise; a failed call is not retried.
C7_SingleBatchCall ==
    (pc \in {"awaiting", "responded"}) =>
        IF Len(properties) > 0
        THEN /\ Len(gatewayCalls) = 1
             /\ Len(gatewayCalls[1]) = Len(properties)
             /\ \A i \in 1..Len(properties) :
                    gatewayCalls[1][i].id = properties[i].id
        ELSE gatewayCalls = <<>>

\* the call failed, the response is out, and there was one call of four
C7_Witness ==
    /\ HasResponded
    /\ outcome = "error"
    /\ Len(gatewayCalls) = 1
    /\ Len(gatewayCalls[1]) > 3

\* the catalog record of a scored property
CatalogRecord(scoredP) == fullProperties[CatalogPos(scoredP.id)]

\* C12: a field that is absent at the top level of the property and present
\* in its characteristics bag is scored from the nested value: bedrooms
\* (characteristics.bedrooms), school_rating, commute_time, property_age and
\* amenities.
C12_NestedFieldsScored ==
    HasResponded =>
        \A i \in 1..Len(enriched) :
            LET p == CatalogRecord(enriched[i])
                c == p.characteristics
                scores == enriched[i].scores
            IN  /\ (IsNull(p.bedrooms) /\ IsNull(p.beds) /\ ~IsNull(c.bedrooms)) =>
                       scores.bedroomScore =
                           computeBedroomScore(c.bedrooms, preferences.minBedrooms)
                /\ (IsNull(p.school_rating) /\ ~IsNull(c.school_rating)) =>
                       scores.schoolRatingScore =
                           computeSchoolRatingScore(c.school_rating)
                /\ (IsNull(p.commute_time) /\ ~IsNull(c.commute_time)) =>
                       scores.commuteScore = computeCommuteScore(c.commute_time)
                /\ (IsNull(p.property_age) /\ ~IsNull(c.property_age)) =>
                       scores.propertyAgeScore =
                           computePropertyAgeScore(c.property_age)
                /\ (IsNull(p.amenities) /\ ~IsNull(c.amenities)) =>
                       scores.amenitiesScore = computeAmenitiesScore(c.amenities)

\* the request gives no budget: null or absent, zero, or negative
NoBudgetGiven ==
    \/ request.budget.t = "null"
    \/ request.budget.t = "num" /\ request.budget.v <= 0

\* the catalog filtered on bedrooms and location only
FilteredIgnoringPrice ==
    SelectSeq(fullProperties,
              LAMBDA property :
                  /\ meetsBedroomRequirement(property, preferences.minBedrooms)
                  /\ matchesPreferredLocation(property,
                                              preferences.preferredLocations))

\* C13: a request whose budget is null, absent, zero or negative applies no
\* budget constraint: no property is filtered out for its price, and every
\* price-match sub-score is the neutral 50.
C13_NoBudgetNoConstraint ==
    (pc \in {"awaiting", "responded"} /\ NoBudgetGiven) =>
        /\ properties = FilteredIgnoringPrice
        /\ \A i \in 1..Len(enriched) :
               enriched[i].scores.priceMatchScore = Pts(50)

\* the ids of the reply whose entry holds a numeric predicted_price
NumericIds ==
    IF axiosResult.rejected \/ IsNull(axiosResult.predictions) THEN {}
    ELSE {id \in DOMAIN Val(axiosResult.predictions) :
              Val(axiosResult.predictions)[id].t = "num"}

\* C16: the gateway returns a map holding exactly the ids of the reply whose
\* entry has a numeric predicted_price, with that price; anyPrediction is
\* true exactly when the map is not empty; on an error it returns an empty
\* map and anyPrediction false, and does not throw.
C16_GatewayScores ==
    (HasResponded /\ outcome # "none") =>
        /\ ~mlResult.threw
        /\ DOMAIN mlResult.scoresById = NumericIds
        /\ \A id \in NumericIds :
               mlResult.scoresById[id] = Val(axiosResult.predictions)[id].v
        /\ mlResult.anyPrediction <=> (DOMAIN mlResult.scoresById # {})
        /\ axiosResult.rejected =>
               (mlResult.scoresById = EmptyScores /\ ~mlResult.anyPrediction)

\* a reply with a numeric entry, an entry that is no number and a missing one
C16_Witness ==
    /\ HasResponded
    /\ outcome = "reply"
    /\ ~IsNull(axiosResult.predictions)
    /\ \E a, b, c \in DOMAIN Val(axiosResult.predictions) :
           /\ Val(axiosResult.predictions)[a] = JNum(200)
           /\ Val(axiosResult.predictions)[b] = JText
           /\ Val(axiosResult.predictions)[c] = JAbsent
    /\ Cardinality(DOMAIN mlResult.scoresById) = 1

\* C17: in every response, isModelApplied and ml_metadata.ml_used_for_property
\* are true exactly when modelPredictedPrice is a number and false exactly
\* when it is null, whatever the preferences (a zero or negative budget
\* included).
C17_ModelAppliedIffPredicted ==
    HasResponded =>
        \A i \in 1..Len(Recs) :
            /\ Recs[i].isModelApplied <=> ~IsNull(Recs[i].modelPredictedPrice)
            /\ Recs[i].ml_metadata.ml_used_for_property <=>
                   ~IsNull(Recs[i].modelPredictedPrice)

\* the payload the handler builds from one request and one gateway result alone
OwnResponse(body, result) ==
    The({The({respond(props, prefs, Len(props) > 0,
                      IF Len(props) > 0 THEN getMlScoresForProperties(result)
                      ELSE NoMlResult).payload :
                  props \in {filterProperties(Catalog, prefs)}}) :
             prefs \in {normalizePreferences(body)}})

\* C18: across overlapping requests, in any interleaving around their waits
\* for the gateway, the catalog is never modified, and each response is what
\* the handler builds from that request's preferences and the reply to that
\* request's own call.
C18_RequestsIsolated ==
    /\ fullProperties = Catalog
    /\ \A h \in Handlers :
           handlers[h].pc = "responded" =>
               handlers[h].response =
                   Num(OwnResponse(handlers[h].request, handlers[h].axiosResult))

\* a response has been sent from one reply while another request, with other
\* preferences, is still waiting for its own
C18_Witness ==
    \E h, k \in Handlers :
        /\ handlers[h].pc = "responded" /\ handlers[h].outcome = "reply"
        /\ handlers[k].pc = "awaiting"
        /\ handlers[k].request # handlers[h].request
        /\ Len(Val(handlers[h].response).recommendations) > 0

\* the record has no school rating, commute time or age, at the top level or
\* in its characteristics
LacksMeasures(property) ==
    /\ IsNull(property.school_rating) /\ IsNull(property.characteristics.school_rating)
    /\ IsNull(property.commute_time) /\ IsNull(property.characteristics.commute_time)
    /\ IsNull(property.property_age) /\ IsNull(property.characteristics.property_age)

\* the scored record of the filtered property with this id
ScoredOf(id) == enriched[CHOOSE j \in 1..Len(enriched) : enriched[j].id = id]

\* the rule score of a record whose school, commute and age sub-scores are
\* the neutral ones
NeutralRuleScore(scores) ==
    computeTotalScore([priceMatchScore |-> Num(scores.priceMatchScore),
                       bedroomScore |-> Num(scores.bedroomScore),
                       schoolRatingScore |-> Num(Pts(50)),
                       commuteScore |-> Num(Pts(50)),
                       propertyAgeScore |-> Num(Pts(60)),
                       amenitiesScore |-> Num(scores.amenitiesScore)])

\* C23: a property without school_rating, commute_time and property_age is
\* sent to the predictor with the defaults 7, 30 and 10, while its rule
\* score for the same request uses the neutral sub-scores 50, 50 and 60.
C23_DefaultsOnlyForPredictor ==
    \A i \in 1..Len(properties) :
        (pc \in {"awaiting", "responded"} /\ LacksMeasures(properties[i])) =>
            /\ gatewayCalls[1][i].id = properties[i].id
            /\ gatewayCalls[1][i].school_rating = Num(7)
            /\ gatewayCalls[1][i].commute_time = Num(30)
            /\ gatewayCalls[1][i].property_age = Num(10)
            /\ HasResponded =>
                   LET scored == ScoredOf(properties[i].id)
                   IN  /\ scored.scores.schoolRatingScore = Pts(50)
                       /\ scored.scores.commuteScore = Pts(50)
                       /\ scored.scores.propertyAgeScore = Pts(60)
                       /\ scored.scoring.rule_score = NeutralRuleScore(scored.scores)

\* a property without the three measures has been posted and scored
C23_Witness ==
    /\ HasResponded
    /\ \E i \in 1..Len(properties) :
           /\ LacksMeasures(properties[i])
           /\ gatewayCalls[1][i].school_rating = Num(7)
           /\ ScoredOf(properties[i].id).scores.propertyAgeScore = Pts(60)

\* the gateway was invoked for this request
GatewayInvoked == Len(gatewayCalls) > 0

\* C27: in every response ml_used and ml_fallback_detected are never both
\* true; when the gateway was invoked exactly one of them is true, and when
\* it was not (no property passed the filter) both are false;
\* ml_fallback_detected is true exactly when ml_fallback_message is not null.
C27_UsedXorFallback ==
    HasResponded =>
        /\ ~(Payload.ml_used /\ Payload.ml_fallback_detected)
        /\ GatewayInvoked => (Payload.ml_used # Payload.ml_fallback_detected)
        /\ ~GatewayInvoked =>
               (~Payload.ml_used /\ ~Payload.ml_fallback_detected)
        /\ (Len(properties) = 0) <=> ~GatewayInvoked
        /\ Payload.ml_fallback_detected <=> ~IsNull(Payload.ml_fallback_message)

\* no property passed the filter: no call, and neither flag is set
C27_Witness ==
    /\ HasResponded
    /\ Len(properties) = 0
    /\ ~GatewayInvoked
    /\ ~Payload.ml_used
    /\ ~Payload.ml_fallback_detected

\* C28: in every response ml_used implies that some filtered property was
\* scored with a prediction (diagnostics.properties_with_ml_scores >= 1);
\* properties_with_ml_scores counts over all filtered properties, not the
\* returned three only, and is at most diagnostics.total_properties.
C28_UsedMeansSomeScored ==
    HasResponded =>
        /\ Payload.ml_used => Payload.diagnostics.properties_with_ml_scores >= 1
        /\ Payload.diagnostics.properties_with_ml_scores =
               Cardinality({i \in 1..Len(enriched) :
                                enriched[i].ml_metadata.ml_used_for_property})
        /\ Len(enriched) = Len(properties)
        /\ Payload.diagnostics.total_properties = Len(properties)
        /\ Payload.diagnostics.properties_with_ml_scores
               <= Payload.diagnostics.total_properties

\* the fixed weights applied to the six sub-scores of a scores object
WeightedTotal(scores) ==
    ( 30 * scores.priceMatchScore + 20 * scores.bedroomScore
    + 15 * scores.schoolRatingScore + 15 * scores.commuteScore
    + 10 * scores.propertyAgeScore + 10 * scores.amenitiesScore ) \div 100

\* C29: for every property of a response scoring.rule_score is the weighted
\* combination 0.30/0.20/0.15/0.15/0.10/0.10 of the six sub-scores of its
\* scores object, and scores.totalScore is that value rounded: the rule
\* scorer and the handler use the same inputs, for any catalog record, also
\* one that carries modelPredictedPrice or ml_metadata itself.
C29_TotalMatchesSubScores ==
    HasResponded =>
        \A i \in 1..Len(Recs) :
            /\ Recs[i].scoring.rule_score = WeightedTotal(Recs[i].scores)
            /\ Recs[i].scores.totalScore =
                   Num(toFixed2(WeightedTotal(Recs[i].scores)))

\* C30: when the request gives a non-empty preferredAreas, every returned
\* property passed the location filter and its area remark says that it is
\* in one of the preferred areas, never that it is outside them, also when
\* the match is on city, state or neighbourhood.
C30_FilterAndReasonAgree ==
    (HasResponded /\ ~IsNull(request.preferredAreas)
                  /\ Len(Val(request.preferredAreas)) > 0) =>
        \A i \in 1..Len(Recs) :
            /\ matchesPreferredLocation(CatalogRecord(Recs[i]),
                                        preferences.preferredLocations)
            /\ \E k \in 1..Len(Recs[i].reasoning) :
                   /\ Recs[i].reasoning[k].remark = "area"
                   /\ Recs[i].reasoning[k].inPreferred

----------------------------------------------------------------------------
(* Claims about the scoring functions *)

InRange(x) == x >= 0 /\ x <= Pts(100)

\* C8: computeTotalScore is 0.30 price + 0.20 bedroom + 0.15 school +
\* 0.15 commute + 0.10 age + 0.10 amenities, and lies in [0,100] when the
\* six inputs do.
C8_TotalScoreWeights ==
    fnCall.fn = "computeTotalScore" =>
        LET a == fnCall.args
        IN  /\ 100 * fnCall.out =
                   30 * a[1] + 20 * a[2] + 15 * a[3] + 15 * a[4] + 10 * a[5]
                   + 10 * a[6]
            /\ (\A i \in 1..6 : InRange(a[i])) => InRange(fnCall.out)

\* inputs that tell the weights apart: only the price-match score is 100
C8_Witness ==
    /\ fnCall.fn = "computeTotalScore"
    /\ fnCall.args = <<Pts(100), 0, 0, 0, 0, 0>>
    /\ fnCall.out = Pts(30)

\* the price-match score the specification gives
PriceMatchAsSpecified(price, budget) ==
    IF IsNull(budget) \/ Val(budget) <= 0 \/ IsNull(price) THEN Pts(50)
    ELSE IF Val(price) <= Val(budget) THEN Pts(100)
    ELSE IF Val(price) >= 2 * Val(budget) THEN 0
    ELSE Pts(100) - ((Val(price) - Val(budget)) * Pts(100)) \div Val(budget)

\* C9: computePriceMatchScore is 50 without a positive budget or without a
\* predicted price, 100 when the predicted price is at most the budget, and
\* else max(0, 100 - 100 (price - budget) / budget), which is 0 from twice
\* the budget on.
C9_PriceMatchCases ==
    fnCall.fn = "computePriceMatchScore" =>
        fnCall.out = PriceMatchAsSpecified(fnCall.args[1], fnCall.args[2])

\* C10: for a positive budget computePriceMatchScore does not increase with
\* the predicted price, over all numeric prices, and is 100 at the budget.
C10_PriceMatchMonotone ==
    (/\ fnCall.fn = "computePriceMatchScore twice"
     /\ ~IsNull(fnCall.args[1]) /\ ~IsNull(fnCall.args[2])
     /\ ~IsNull(fnCall.args[3]) /\ Val(fnCall.args[3]) > 0) =>
        /\ Val(fnCall.args[1]) <= Val(fnCall.args[2]) =>
               fnCall.out[1] >= fnCall.out[2]
        /\ fnCall.args[1] = fnCall.args[3] => fnCall.out[1] = Pts(100)

\* the bedroom score the specification gives
BedroomAsSpecified(beds, minBedrooms) ==
    IF IsNull(minBedrooms) \/ Val(minBedrooms) <= 0 THEN Pts(100)
    ELSE IF IsNull(beds) THEN 0
    ELSE IF Val(beds) >= Val(minBedrooms) THEN Pts(100)
    ELSE Max(0, Min(Pts(100), (Val(beds) * Pts(100)) \div Val(minBedrooms)))

\* C11: computeBedroomScore is 100 when no minimum binds (null, 0 or
\* negative) whatever the count; else 0 without a count, 100 when the count
\* is at least the minimum, and count / minimum x 100 clamped to [0,100]
\* below it.
C11_BedroomScoreCases ==
    fnCall.fn = "computeBedroomScore" =>
        fnCall.out = BedroomAsSpecified(fnCall.args[1], fnCall.args[2])

\* one bedroom against a minimum of four scores 25; no count against a
\* binding minimum is among the calls too
C11_Witness ==
    /\ fnCall.fn = "computeBedroomScore"
    /\ fnCall.args = <<Num(1), Num(4)>>
    /\ fnCall.out = Pts(25)

\* a nullable number that is there and positive
Positive(x) == ~IsNull(x) /\ Val(x) > 0

\* C14: priceToScore returns null whenever the predicted price or the budget
\* is missing, zero or negative, and a number only when both are positive.
C14_PriceToScoreNullCases ==
    fnCall.fn = "priceToScore" =>
        (IsNull(fnCall.out) <=>
             ~(Positive(fnCall.args[1]) /\ Positive(fnCall.args[2])))

\* the favorability score the specification gives for positive p and b
PriceToScoreAsSpecified(p, b) ==
    IF p <= b THEN Pts(60) + (Pts(40) * (b - p)) \div b
    ELSE Max(0, Pts(60) - Min((Pts(40) * (p - b)) \div b, (Pts(40) * 3) \div 2))

\* C15: for positive price and budget, priceToScore is 60 + 40 (1 - ratio)
\* up to ratio 1 and max(0, 60 - 40 min(ratio - 1, 1.5)) above it: 60 at
\* ratio 1, 0 from ratio 2.5 on, non-increasing in the price, within [0,100].
C15_PriceToScoreCurve ==
    (/\ fnCall.fn = "priceToScore"
     /\ Positive(fnCall.args[1]) /\ Positive(fnCall.args[2])) =>
        LET p == Val(fnCall.args[1])
            b == Val(fnCall.args[2])
        IN  /\ fnCall.out = Num(PriceToScoreAsSpecified(p, b))
            /\ p = b => fnCall.out = Num(Pts(60))
            /\ 2 * p >= 5 * b => fnCall.out = Num(0)
            /\ InRange(Val(fnCall.out))
            /\ \A q \in PriceInputs :
                   (Positive(q) /\ Val(q) >= p) =>
                       Val(priceToScore(q, fnCall.args[2])) <= Val(fnCall.out)

\* a price of exactly 2.5 times the budget scores 0
C15_Witness ==
    /\ fnCall.fn = "priceToScore"
    /\ fnCall.args = <<Num(1000), Num(400)>>
    /\ fnCall.out = Num(0)

\* the six sub-score functions
SubScoreFns ==
    {"computePriceMatchScore", "computeBedroomScore", "computeSchoolRatingScore",
     "computeCommuteScore", "computePropertyAgeScore", "computeAmenitiesScore"}

\* C19: each of the six sub-score functions returns a value in [0,100] for
\* every input that is a number or null (for amenities: any list of strings
\* or an absent list), negative and very large numbers included.
C19_SubScoresInRange ==
    fnCall.fn \in SubScoreFns => InRange(fnCall.out)

\* a very large school rating is held at 100
C19_Witness ==
    /\ fnCall.fn = "computeSchoolRatingScore"
    /\ fnCall.args = <<Num(3000)>>
    /\ fnCall.out = Pts(100)

\* some amenity of the list holds one of the keywords, whatever its casing
FamilyMatched(list, keywords) ==
    \E i \in 1..Len(list) :
        \E kw \in keywords : includes(toLowerCase(list[i]), kw)

\* the amenities score the specification gives for a list
AmenitiesAsSpecified(list) ==
    LET k == Cardinality({family \in {{kwPool}, {kwGarage}, {kwGarden, kwBackyard}} :
                             FamilyMatched(list, family)})
    IN  (k * Pts(100)) \div 3

\* the amenity strings that match none of the three families
NeutralWords == {w \in AmenityWords : ~FamilyMatched(<<w>>, {kwPool, kwGarage, kwGarden, kwBackyard})}

\* C20: computeAmenitiesScore is 0 for an empty or absent list and else
\* 100 k / 3, k the number of the families pool, garage and
\* garden-or-backyard matched as a case-insensitive substring by some
\* amenity; garden and backyard together count once, and adding an amenity
\* of no family does not change the score.
C20_AmenitiesScore ==
    fnCall.fn = "computeAmenitiesScore" =>
        LET amenities == fnCall.args[1]
        IN  IF IsNull(amenities) \/ Val(amenities) = <<>> THEN fnCall.out = 0
            ELSE /\ fnCall.out = AmenitiesAsSpecified(Val(amenities))
                 /\ \A w \in NeutralWords :
                        computeAmenitiesScore(Num(Append(Val(amenities), w)))
                            = fnCall.out

\* a garden and a backyard together count once: one family of three
C20_Witness ==
    /\ fnCall.fn = "computeAmenitiesScore"
    /\ fnCall.args = <<Num(<<sGARDEN, sBackyard, sGym>>)>>
    /\ fnCall.out = Pts(100) \div 3

\* the commute score the specification gives
CommuteAsSpecified(commuteTime) ==
    IF IsNull(commuteTime) THEN Pts(50)
    ELSE CASE Val(commuteTime) <= 15 -> Pts(100)
           [] Val(commuteTime) > 15 /\ Val(commuteTime) <= 30 -> Pts(80)
           [] Val(commuteTime) > 30 /\ Val(commuteTime) <= 45 -> Pts(50)
           [] Val(commuteTime) > 45 -> Pts(20)

\* C21: computeCommuteScore is 50 for an unknown commute time, 100 up to 15
\* minutes, 80 in (15,30], 50 in (30,45] and 20 above 45, and does not
\* increase with the commute time over known values.
C21_CommuteSteps ==
    fnCall.fn = "computeCommuteScore" =>
        /\ fnCall.out = CommuteAsSpecified(fnCall.args[1])
        /\ ~IsNull(fnCall.args[1]) =>
               \A later \in MeasureInputs :
                   (~IsNull(later) /\ Val(later) >= Val(fnCall.args[1])) =>
                       computeCommuteScore(later) <= fnCall.out

\* a commute of exactly 30 minutes is still in the 80 step
C21_Witness ==
    /\ fnCall.fn = "computeCommuteScore"
    /\ fnCall.args = <<Num(30)>>
    /\ fnCall.out = Pts(80)

\* the age score the specification gives
PropertyAgeAsSpecified(propertyAge) ==
    IF IsNull(propertyAge) THEN Pts(60)
    ELSE CASE Val(propertyAge) <= 5 -> Pts(100)
           [] Val(propertyAge) > 5 /\ Val(propertyAge) <= 15 -> Pts(80)
           [] Val(propertyAge) > 15 /\ Val(propertyAge) <= 30 -> Pts(60)
           [] Val(propertyAge) > 30 -> Pts(40)

\* C22: computePropertyAgeScore is 60 for an unknown age, 100 up to 5 years,
\* 80 in (5,15], 60 in (15,30] and 40 above 30, and does not increase with
\* the age over known values.
C22_PropertyAgeSteps ==
    fnCall.fn = "computePropertyAgeScore" =>
        /\ fnCall.out = PropertyAgeAsSpecified(fnCall.args[1])
        /\ ~IsNull(fnCall.args[1]) =>
               \A later \in MeasureInputs :
                   (~IsNull(later) /\ Val(later) >= Val(fnCall.args[1])) =>
                       computePropertyAgeScore(later) <= fnCall.out

\* an unknown age scores 60, the score of a home between 15 and 30 years
C22_Witness ==
    /\ fnCall.fn = "computePropertyAgeScore"
    /\ fnCall.args = <<Null>>
    /\ fnCall.out = Pts(60)

----------------------------------------------------------------------------
(* Claims about the reasoning text *)

\* C24: getReasonParts bases the price remark on the predicted price
\* whenever a prediction exists; it gives the list-price remark, with its
\* note that the model prediction is unavailable, exactly when no
\* prediction exists and a list price and a budget both exist; in every
\* other case there is no price remark.  (A budget or a list price of 0 is
\* taken here as none.)
C24_PriceRemarkBasis ==
    fnCall.fn = "getReasonParts" =>
        LET property == fnCall.args[1]
            remark == fnCall.out.priceRemark
            predictionExists == ~IsNull(carriedPrediction(property))
            listPriceExists ==
                ~Falsy(Coalesce(property.price, property.list_price))
            budgetExists == ~Falsy(fnCall.args[2].budget)
        IN  /\ predictionExists =>
                   (~IsNull(remark) /\ Val(remark).basis = "predicted")
            /\ (~IsNull(remark) /\ Val(remark).basis = "list") <=>
                   (~predictionExists /\ listPriceExists /\ budgetExists)
            /\ (~predictionExists /\ ~(listPriceExists /\ budgetExists)) =>
                   IsNull(remark)

\* the place of a remark in the fixed order
RemarkRank(remark) ==
    CASE remark.remark = "price" -> 1
      [] remark.remark = "bedrooms" -> 2
      [] remark.remark = "area" -> 3
      [] remark.remark = "amenities" -> 4

\* the text holds a remark of this kind
HasRemark(text, kind) == \E i \in 1..Len(text) : text[i].remark = kind

\* the property has an amenity that is not blank, at the top level or in
\* its characteristics
HasNonBlankAmenity(property) ==
    \E list \in {property.amenities, property.characteristics.amenities} :
        /\ ~IsNull(list)
        /\ \E i \in 1..Len(Val(list)) : trim(Val(list)[i]) # <<>>

\* C25: in the text built by buildReason the bedroom remark appears only
\* when a minimum-bedroom preference is supplied, the area remark only when
\* the preferred-area list is not empty, and the amenities remark only when
\* the property has a non-blank amenity; the remarks are in the order price,
\* bedroom, area, amenities; a property with no amenities field and an
\* empty characteristics bag gets no amenities remark.
C25_RemarksNeedPreconditions ==
    fnCall.fn = "buildReason" =>
        LET property == fnCall.args[1]
            prefs == fnCall.args[2]
            text == fnCall.out
        IN  /\ HasRemark(text, "bedrooms") => ~IsNull(prefs.minBedrooms)
            /\ HasRemark(text, "area") => Len(prefs.preferredAreas) > 0
            /\ HasRemark(text, "amenities") => HasNonBlankAmenity(property)
            /\ \A i, j \in 1..Len(text) :
                   i < j => RemarkRank(text[i]) < RemarkRank(text[j])
            /\ (IsNull(property.amenities)
                    /\ property.characteristics = NoCharacteristics) =>
                   ~HasRemark(text, "amenities")

\* a text of all four remarks, in order
C25_Witness ==
    /\ fnCall.fn = "buildReason"
    /\ Len(fnCall.out) = 4
    /\ fnCall.out[1].remark = "price"
    /\ fnCall.out[4].remark = "amenities"

----------------------------------------------------------------------------
(* Claims about POST /save-property *)

\* the body passes the handler's validation
ValidSave(body) ==
    ~IsNull(body.propertyId) /\ ~IsNull(body.userId) /\ Val(body.userId) # ""

\* what the handling of one request by one slot may do
SaveStepAllowed(slot) ==
    LET before == caseA.saves[slot]
        after == caseA'.saves[slot]
        handled == before.pc = "idle" /\ after.pc # "idle"
    IN  /\ (handled /\ after.pc = "creating") => caseA.readyState = Connected
        /\ (handled /\ ValidSave(after.body) /\ caseA.readyState # Connected) =>
               /\ after.pc = "responded"
               /\ after.status = 200
               /\ ~after.success
               /\ ~after.persistenceEnabled
               /\ caseA'.savedProperties = caseA.savedProperties

\* C26: /save-property creates a SavedProperty record only if the MongoDB
\* connection is established when the request is handled; when it is not
\* (URI unset, attempt failed, attempt in progress), a request with valid
\* userId and propertyId gets 200 with success false and persistenceEnabled
\* false and no record is created, in every interleaving of connectDB and
\* requests.
C26_SaveOnlyWhenConnected ==
    [][/\ \A slot \in SaveSlots : SaveStepAllowed(slot)
       /\ caseA'.savedProperties # caseA.savedProperties =>
              \E slot \in SaveSlots :
                  /\ caseA.saves[slot].pc = "creating"
                  /\ caseA'.saves[slot].status = 201]_vars

\* a valid request answered 200 without persistence while connectDB still
\* waits for mongoose.connect
C26_Witness ==
    /\ caseA.connectDB = "awaiting"
    /\ caseA.savedProperties = <<>>
    /\ \E slot \in SaveSlots :
           /\ caseA.saves[slot].pc = "responded"
           /\ ValidSave(caseA.saves[slot].body)
           /\ caseA.saves[slot].status = 200
           /\ ~caseA.saves[slot].persistenceEnabled

====
